---- MODULE Spec2Model ----
(***************************************************************************)
(* Model of CostAnomalyDetector (multicloud-cost-anomaly-detector.py).     *)
(*                                                                         *)
(* Numbers.  Costs are naturals; every mean, standard deviation, z-score,  *)
(* quartile and percentage of the source is a rational or the square root  *)
(* of one, and every comparison the source makes on them is decided here   *)
(* exactly, by cross-multiplying (and squaring a comparison of a           *)
(* non-negative ratio).  A mean is kept as the pair sum/count; a count of  *)
(* 0 is the source's NaN.                                                  *)
(*                                                                         *)
(* Dates.  The store holds date STRINGS.  A string is the pair of the      *)
(* calendar day it denotes and its notation: "iso" is '%Y-%m-%d', "alt" is *)
(* any other notation pandas parses to the same day.  to_datetime keeps    *)
(* the day, strftime writes it back in "iso".                              *)
(***************************************************************************)
EXTENDS Integers, Sequences, FiniteSets, TLC

-----------------------------------------------------------------------------
(* Bounds of the model. *)

\* Largest ordinary daily cost of a series.
MaxCost == 9
\* Longest series of the store.
MaxLen == 58
\* Largest rolling window passed to detect_statistical_anomalies directly.
MaxWindow == 4

(* Constants of the program. *)

\* range(7, len(costs)), costs[i-7:i], i >= 7: the short trailing window.
ShortWindow == 7
\* i >= 30, costs[i-30:i]: the long trailing window of the features.
LongWindow == 30
\* window_days: int = 30
DefaultWindowDays == 30
\* threshold_percent: float = 20
DefaultThresholdPercent == 20
\* abs(percent_change) > 50
HighTrendPercent == 50
\* range(7): the day-of-week buckets.
DaysPerWeek == 7
\* random_state=42
RandomState == 42
\* sensitivity: float = 0.1, in percent.
SensitivityPercent == 10

-----------------------------------------------------------------------------
(* Arithmetic helpers. *)

Abs(x) == IF x < 0 THEN -x ELSE x

RECURSIVE RunningSums(_, _, _, _)
\* the sums base + s[lo] + ... + s[i], for every i of lo..hi
RunningSums(s, lo, hi, base) ==
    IF lo > hi THEN <<>>
    ELSE IF lo = hi THEN <<base + s[lo]>>
    ELSE LET mid  == (lo + hi) \div 2
             left == RunningSums(s, lo, mid, base)
         IN  left \o RunningSums(s, mid + 1, hi, left[Len(left)])

\* a series of costs with the running sums of its costs and of their
\* squares, from which the sum over any window is a difference
Series(costs) ==
    [x  |-> costs,
     s1 |-> RunningSums(costs, 1, Len(costs), 0),
     s2 |-> RunningSums([i \in 1..Len(costs) |-> costs[i] * costs[i]],
                        1, Len(costs), 0)]

Upto(sums, i) == IF i < 1 THEN 0 ELSE sums[i]

\* sum of the costs lo..hi
SumRange(ser, lo, hi) ==
    IF lo > hi THEN 0 ELSE Upto(ser.s1, hi) - Upto(ser.s1, lo - 1)

\* sum of the squares of the costs lo..hi
SumSqRange(ser, lo, hi) ==
    IF lo > hi THEN 0 ELSE Upto(ser.s2, hi) - Upto(ser.s2, lo - 1)

\* n*n times the population variance of the costs lo..hi (n = hi - lo + 1);
\* n*(n-1) times the sample variance.
VarNum(ser, lo, hi) ==
    LET n == hi - lo + 1
        S == SumRange(ser, lo, hi)
    IN  n * SumSqRange(ser, lo, hi) - S * S

Range(s) == {s[i] : i \in 1..Len(s)}

RECURSIVE SelectIdx(_, _, _)
\* the indices i of lo..hi with Test(i), increasing
SelectIdx(Test(_), lo, hi) ==
    IF lo > hi THEN <<>>
    ELSE IF lo = hi THEN (IF Test(lo) THEN <<lo>> ELSE <<>>)
    ELSE LET mid == (lo + hi) \div 2
         IN  SelectIdx(Test, lo, mid) \o SelectIdx(Test, mid + 1, hi)

RECURSIVE Flatten(_)
Flatten(ss) ==
    IF Len(ss) = 0 THEN <<>>
    ELSE IF Len(ss) = 1 THEN ss[1]
    ELSE LET mid == Len(ss) \div 2
         IN  Flatten(SubSeq(ss, 1, mid)) \o Flatten(SubSeq(ss, mid + 1, Len(ss)))

\* a mean as the source holds it: sum/count, NaN when count = 0
Mean(S, n) == [num |-> S, den |-> n]
NaN == [num |-> 0, den |-> 0]

-----------------------------------------------------------------------------
(* Dates. *)

\* pd.to_datetime: the day a date string denotes
to_datetime(s) == s.day

\* Timestamp.strftime('%Y-%m-%d')
strftime(ts) == [day |-> ts, fmt |-> "iso"]

\* Series.dt.dayofweek
dayofweek(ts) == ts % DaysPerWeek

-----------------------------------------------------------------------------
(* The store: self.historical_data, a dict with the key "dates" and one    *)
(* key per provider.                                                       *)

\* provider in self.historical_data
InStore(hd, provider) == provider \in DOMAIN hd

\* list(self.historical_data.keys()): the keys in the order of insertion,
\* the date list first
keys(hd) == SelectSeq(<<"dates", "aws", "gcp">>, LAMBDA k : k \in DOMAIN hd)

\* the entry under this key holds strings, not costs: it is the date list
\* (an empty list is the same under every key)
NonNumeric(hd, provider) ==
    /\ InStore(hd, provider)
    /\ provider = "dates"
    /\ Len(hd[provider]) > 0

-----------------------------------------------------------------------------
(* detect_statistical_anomalies *)

\* pd.DataFrame({'date': dates, 'cost': costs}) with date parsed
DataFrame(dates, costs) ==
    [i \in 1..Len(costs) |-> [date |-> to_datetime(dates[i]), cost |-> costs[i]]]

\* df.sort_values('date'): rows by increasing date, equal dates in df order
sort_values(df) ==
    LET n == Len(df)
        Rank(i) == Cardinality({j \in 1..n :
                        \/ df[j].date < df[i].date
                        \/ df[j].date = df[i].date /\ j <= i})
    IN  IF \A i \in 1..(n - 1) : df[i].date < df[i + 1].date
        THEN df
        ELSE [k \in 1..n |-> df[CHOOSE i \in 1..n : Rank(i) = k]]

\* the k-th smallest cost (k = 1 is the minimum)
SortedAt(costs, k) ==
    CHOOSE v \in Range(costs) :
        /\ Cardinality({i \in 1..Len(costs) : costs[i] < v}) < k
        /\ k <= Cardinality({i \in 1..Len(costs) : costs[i] <= v})

\* 4 * Series.quantile(q4/4): linear interpolation between order statistics
Quantile4(costs, q4) ==
    LET pos4 == q4 * (Len(costs) - 1)
        k    == pos4 \div 4
        r    == pos4 % 4
        lo   == SortedAt(costs, k + 1)
        hi   == IF r = 0 THEN lo ELSE SortedAt(costs, k + 2)
    IN  4 * lo + r * (hi - lo)

\* rolling(window, center=True): the window of row i is lo..hi, and its
\* statistics are defined only when the window lies inside the series
RollLo(i, window) == i + ((window - 1) \div 2) - window + 1
RollHi(i, window) == i + ((window - 1) \div 2)
RollDefined(n, i, window) == RollLo(i, window) >= 1 /\ RollHi(i, window) <= n

\* abs(row['z_score']) > cut10/10, where z_score = (cost - rolling_mean) /
\* rolling_std is NaN (and the test False) when the window is undefined, has
\* a single point, or has rolling_std = 0 (then cost = rolling_mean: 0/0)
\* Variant: the ratio taken without regard to a zero rolling_std.
ZScoreExceedsUnguarded(ser, i, window, cut10) ==
    /\ RollDefined(Len(ser.x), i, window)
    /\ LET lo == RollLo(i, window)
           hi == RollHi(i, window)
           d  == window * ser.x[i] - SumRange(ser, lo, hi)
       IN  100 * d * d * (window - 1) >=
               cut10 * cut10 * window * VarNum(ser, lo, hi)

\* Variant: the cut itself counts as exceeded (>= for >).
ZScoreReaches(ser, i, window, cut10) ==
    /\ RollDefined(Len(ser.x), i, window)
    /\ window >= 2
    /\ LET lo == RollLo(i, window)
           hi == RollHi(i, window)
           d  == window * ser.x[i] - SumRange(ser, lo, hi)
           v  == VarNum(ser, lo, hi)
       IN  /\ v > 0
           /\ 100 * d * d * (window - 1) >= cut10 * cut10 * window * v

ZScoreExceeds(ser, i, window, cut10) ==
    /\ RollDefined(Len(ser.x), i, window)
    /\ window >= 2
    /\ LET lo == RollLo(i, window)
           hi == RollHi(i, window)
           d  == window * ser.x[i] - SumRange(ser, lo, hi)
           v  == VarNum(ser, lo, hi)
       IN  /\ v > 0
           /\ 100 * d * d * (window - 1) > cut10 * cut10 * window * v

\* Q1, Q3 of the whole series, each times 4 (NaN, here 0, on no rows)
Quartiles(costs) ==
    IF Len(costs) = 0 THEN [Q1 |-> 0, Q3 |-> 0, nan |-> TRUE]
    ELSE [Q1 |-> Quantile4(costs, 1), Q3 |-> Quantile4(costs, 3), nan |-> FALSE]

\* row['cost'] < lower_bound or row['cost'] > upper_bound, with
\* lower_bound = Q1 - 1.5 * IQR and upper_bound = Q3 + 1.5 * IQR
OutsideIQR(q, c) ==
    /\ ~q.nan
    /\ \/ 8 * c < 2 * q.Q1 - 3 * (q.Q3 - q.Q1)
       \/ 8 * c > 2 * q.Q3 + 3 * (q.Q3 - q.Q1)

\* abs(row['cost'] - df['cost'].mean()) > 2 * df['cost'].std()
FarFromSeriesMean(ser, c) ==
    LET n == Len(ser.x)
        d == n * c - SumRange(ser, 1, n)
    IN  /\ n >= 2
        /\ d * d * (n - 1) > 4 * n * VarNum(ser, 1, n)

\* row['rolling_mean']
RollingMean(ser, i, window) ==
    IF RollDefined(Len(ser.x), i, window)
    THEN Mean(SumRange(ser, RollLo(i, window), RollHi(i, window)), window)
    ELSE NaN

\* Variant: the row is appended whether or not is_anomaly was set, with the
\* initial anomaly_type "" and severity "low" when no test fired.
StatisticalRowUnfiltered(df, ser, q, i, window) ==
    LET z25 == ZScoreExceeds(ser, i, window, 25)
        iqr == ~z25 /\ OutsideIQR(q, ser.x[i])
    IN  << [date          |-> strftime(df[i].date),
            cost          |-> ser.x[i],
            expected_cost |-> RollingMean(ser, i, window),
            anomaly_type  |-> IF z25 THEN "z_score"
                              ELSE IF iqr THEN "iqr" ELSE "",
            severity      |-> IF z25 \/ iqr THEN "medium" ELSE "low"] >>

StatisticalRow(df, ser, q, i, window) ==
    LET z25 == ZScoreExceeds(ser, i, window, 25)
        iqr == ~z25 /\ OutsideIQR(q, ser.x[i])
    IN  IF z25 \/ iqr
        THEN << [date          |-> strftime(df[i].date),
                 cost          |-> ser.x[i],
                 expected_cost |-> RollingMean(ser, i, window),
                 anomaly_type  |-> IF z25 THEN "z_score" ELSE "iqr",
                 severity      |->
                     IF z25
                     THEN (IF ZScoreExceeds(ser, i, window, 35)
                           THEN "high" ELSE "medium")
                     ELSE (IF FarFromSeriesMean(ser, ser.x[i])
                           THEN "high" ELSE "medium")] >>
        ELSE <<>>

detect_statistical_anomalies(hd, provider, window_days) ==
    IF ~InStore(hd, provider) THEN <<>>
    ELSE LET df    == sort_values(DataFrame(hd["dates"], hd[provider]))
             costs == [i \in 1..Len(df) |-> df[i].cost]
             ser   == Series(costs)
             q     == Quartiles(costs)
         IN  Flatten([i \in 1..Len(df) |->
                          StatisticalRow(df, ser, q, i, window_days)])

-----------------------------------------------------------------------------
(* detect_ml_anomalies.  IsolationForest is scikit-learn's; what the model *)
(* keeps of it is what the detector relies on: fit validates its input and *)
(* replaces the fitted state of the one estimator object, drawing its      *)
(* randomness afresh from random_state; predict and decision_function are  *)
(* deterministic functions of the fitted state and of the rows they are    *)
(* given.  The functions themselves are stand-ins: a row is an outlier     *)
(* when at most the contamination share of the training rows agree with it *)
(* on the split feature, and its score is minus its distance from the      *)
(* training mean of that feature, relative to the feature's range.         *)

\* Variant: the trailing windows end on the current day (costs[i-6:i+1],
\* costs[i-29:i+1]).
ExtractFeaturesInclusive(costs) ==
    LET ser == Series(costs)
    IN  [i \in 1..Len(costs) |->
            << costs[i],
               IF i > ShortWindow
               THEN SumRange(ser, i - ShortWindow + 1, i)
               ELSE ShortWindow * costs[i],
               IF i > ShortWindow
               THEN VarNum(ser, i - ShortWindow + 1, i)
               ELSE 0,
               IF i > LongWindow
               THEN SumRange(ser, i - LongWindow + 1, i)
               ELSE LongWindow * costs[i],
               IF i > LongWindow
               THEN VarNum(ser, i - LongWindow + 1, i)
               ELSE 0,
               IF i > ShortWindow THEN costs[i - ShortWindow] ELSE costs[i] >>]

\* _extract_features: row i is <<cost, 7 * mean7, 49 * var7, 30 * mean30,
\* 900 * var30, cost a week before>> (np.std is the population deviation,
\* kept squared); the source's i is i - 1 here
_extract_features(costs) ==
    LET ser == Series(costs)
    IN  [i \in 1..Len(costs) |->
            << costs[i],
               IF i > ShortWindow
               THEN SumRange(ser, i - ShortWindow, i - 1)
               ELSE ShortWindow * costs[i],
               IF i > ShortWindow
               THEN VarNum(ser, i - ShortWindow, i - 1)
               ELSE 0,
               IF i > LongWindow
               THEN SumRange(ser, i - LongWindow, i - 1)
               ELSE LongWindow * costs[i],
               IF i > LongWindow
               THEN VarNum(ser, i - LongWindow, i - 1)
               ELSE 0,
               IF i > ShortWindow THEN costs[i - ShortWindow] ELSE costs[i] >>]

\* IsolationForest(contamination=sensitivity, random_state=42)
IsolationForest(sensitivity) ==
    [contamination |-> sensitivity, random_state |-> RandomState,
     fitted |-> FALSE, X |-> <<>>, rng |-> 0]

\* fit raises ValueError on a matrix with no rows, and on one holding a
\* value beyond float32 (the cost MaxCost + 1 stands for these)
FitRaises(X) == Len(X) = 0 \/ \E i \in 1..Len(X) : X[i][1] = MaxCost + 1

\* Variant: the generator is not reseeded, each fit draws on from the last.
fit_unseeded(forest, X) ==
    [forest EXCEPT !.fitted = TRUE, !.X = X, !.rng = forest.rng + 1]

\* Variant: a warm start, the new rows are added to the rows of earlier fits.
fit_incremental(forest, X) ==
    [forest EXCEPT !.fitted = TRUE, !.X = forest.X \o X,
                   !.rng = forest.random_state]

\* self.isolation_forest.fit(features)
fit(forest, X) ==
    [forest EXCEPT !.fitted = TRUE, !.X = X, !.rng = forest.random_state]

\* the feature the fitted trees split on (1-based)
SplitFeature(forest) == (forest.rng % Len(forest.X[1])) + 1

TrainColumn(forest) ==
    [j \in 1..Len(forest.X) |-> forest.X[j][SplitFeature(forest)]]

\* what the scores of a fitted estimator are computed from: the number of
\* training rows, their sum, their least and greatest value
TrainStats(col) ==
    LET R == Range(col)
    IN  [n  |-> Len(col),
         S  |-> Upto(RunningSums(col, 1, Len(col), 0), Len(col)),
         lo |-> CHOOSE v \in R : \A w \in R : v <= w,
         hi |-> CHOOSE v \in R : \A w \in R : w <= v]

\* the denominator all scores of a fitted estimator share
ScoreDen(st) == IF st.hi = st.lo THEN 1 ELSE st.n * (st.hi - st.lo)

\* score_samples of a value x, times ScoreDen: the lower, the farther x is
\* from the training rows
ScoreNum(st, x) ==
    IF st.hi = st.lo
    THEN (IF x = st.lo THEN 0 ELSE -1)
    ELSE -Abs(st.n * x - st.S)

\* offset_ = np.percentile(score_samples(X), 100 * contamination) over the
\* training rows, times 100 * ScoreDen
Offset100(forest, col, st) ==
    LET Score  == [v \in Range(col) |-> ScoreNum(st, v)]
        scores == [j \in 1..Len(col) |-> Score[col[j]]]
        pos100 == forest.contamination * (Len(col) - 1)
        k      == pos100 \div 100
        r      == pos100 % 100
        lo     == SortedAt(scores, k + 1)
        hi     == IF r = 0 THEN lo ELSE SortedAt(scores, k + 2)
    IN  100 * lo + r * (hi - lo)

\* self.isolation_forest.decision_function(features), a ratio num/den:
\* score_samples(X) - offset_
decision_function(forest, X) ==
    LET col    == TrainColumn(forest)
        st     == TrainStats(col)
        f      == SplitFeature(forest)
        den    == 100 * ScoreDen(st)
        offset == Offset100(forest, col, st)
        Num    == [v \in {X[i][f] : i \in 1..Len(X)} |->
                      100 * ScoreNum(st, v) - offset]
    IN  [i \in 1..Len(X) |-> [num |-> Num[X[i][f]], den |-> den]]

\* self.isolation_forest.predict(features): -1 where decision_function < 0
predict(forest, X) ==
    LET scores == decision_function(forest, X)
    IN  [i \in 1..Len(X) |-> IF scores[i].num < 0 THEN -1 ELSE 1]

\* Variant: the cut at -0.3 is tested before the cut at -0.5.
MlSeverityLooseFirst(score) ==
    IF 10 * score.num < -3 * score.den THEN "medium"
    ELSE IF 2 * score.num < -score.den THEN "high"
    ELSE "low"

\* "high" if score < -0.5 else "medium" if score < -0.3 else "low"
MlSeverity(score) ==
    IF 2 * score.num < -score.den THEN "high"
    ELSE IF 10 * score.num < -3 * score.den THEN "medium"
    ELSE "low"

\* the loop over zip(predictions, anomaly_scores, costs, dates)
MlCollect(predictions, anomaly_scores, costs, dates) ==
    LET n == Len(predictions)
    IN  Flatten([i \in 1..n |->
            IF predictions[i] = -1
            THEN << [date          |-> dates[i],
                     cost          |-> costs[i],
                     anomaly_score |-> anomaly_scores[i],
                     anomaly_type  |-> "isolation_forest",
                     severity      |-> MlSeverity(anomaly_scores[i])] >>
            ELSE <<>>])

-----------------------------------------------------------------------------
(* detect_trend_anomalies *)

\* Variant: a change within the high cut is graded low.
TrendRowGraded(ser, dates, i, threshold_percent) ==
    LET S == SumRange(ser, i - ShortWindow, i - 1)
        d == ShortWindow * ser.x[i] - S
    IN  IF S > 0 /\ 100 * Abs(d) > threshold_percent * S
        THEN << [date            |-> dates[i],
                 cost            |-> ser.x[i],
                 expected_cost   |-> Mean(S, ShortWindow),
                 anomaly_type    |-> "trend",
                 severity        |-> IF 100 * Abs(d) > HighTrendPercent * S
                                     THEN "high" ELSE "low",
                 trend_direction |-> IF d > 0 THEN "increase" ELSE "decrease"] >>
        ELSE <<>>

\* Variant: the moving average takes in the current day (costs[i-6:i+1]).
TrendRowInclusive(ser, dates, i, threshold_percent) ==
    LET S == SumRange(ser, i - ShortWindow + 1, i)
        d == ShortWindow * ser.x[i] - S
    IN  IF S > 0 /\ 100 * Abs(d) > threshold_percent * S
        THEN << [date            |-> dates[i],
                 cost            |-> ser.x[i],
                 expected_cost   |-> Mean(S, ShortWindow),
                 anomaly_type    |-> "trend",
                 severity        |-> IF 100 * Abs(d) > HighTrendPercent * S
                                     THEN "high" ELSE "medium",
                 trend_direction |-> IF d > 0 THEN "increase" ELSE "decrease"] >>
        ELSE <<>>

TrendRow(ser, dates, i, threshold_percent) ==
    LET S == SumRange(ser, i - ShortWindow, i - 1)
        d == ShortWindow * ser.x[i] - S
    IN  IF S > 0 /\ 100 * Abs(d) > threshold_percent * S
        THEN << [date            |-> dates[i],
                 cost            |-> ser.x[i],
                 expected_cost   |-> Mean(S, ShortWindow),
                 anomaly_type    |-> "trend",
                 severity        |-> IF 100 * Abs(d) > HighTrendPercent * S
                                     THEN "high" ELSE "medium",
                 trend_direction |-> IF d > 0 THEN "increase" ELSE "decrease"] >>
        ELSE <<>>

detect_trend_anomalies(hd, provider, threshold_percent) ==
    IF ~InStore(hd, provider) THEN <<>>
    ELSE LET costs == hd[provider]
             dates == hd["dates"]
             ser   == Series(costs)
         IN  Flatten([k \in 1..(IF Len(costs) > ShortWindow
                                THEN Len(costs) - ShortWindow ELSE 0) |->
                 TrendRow(ser, dates, k + ShortWindow, threshold_percent)])

-----------------------------------------------------------------------------
(* detect_seasonal_anomalies *)

\* Variant: a bucket's deviation is tested without regard to std = 0.
SeasonalExceedsUnguarded(n, S, V, c, cut10) ==
    100 * (n * c - S) * (n * c - S) * (n - 1) >= cut10 * cut10 * n * V

\* Variant: the bucket's deviation is the population one (ddof = 0).
SeasonalExceedsPopulation(n, S, V, c, cut10) ==
    /\ n >= 2
    /\ V > 0
    /\ 100 * (n * c - S) * (n * c - S) > cut10 * cut10 * V

\* day_std > 0 and abs((cost - day_mean) / day_std) > cut10/10, for a bucket
\* of n points with sum S and n*(n-1)*variance V (std is NaN for n = 1)
SeasonalExceeds(n, S, V, c, cut10) ==
    /\ n >= 2
    /\ V > 0
    /\ 100 * (n * c - S) * (n * c - S) * (n - 1) > cut10 * cut10 * n * V

SeasonalBucket(df, day) ==
    LET idx   == SelectIdx(LAMBDA i : dayofweek(df[i].date) = day, 1, Len(df))
        data  == [k \in 1..Len(idx) |-> df[idx[k]].cost]
        n     == Len(data)
        S     == SumRange(Series(data), 1, n)
        V     == VarNum(Series(data), 1, n)
    IN  IF n = 0 THEN <<>>
        ELSE Flatten([k \in 1..n |->
            IF SeasonalExceeds(n, S, V, data[k], 25)
            THEN << [date          |-> strftime(df[idx[k]].date),
                     cost          |-> data[k],
                     expected_cost |-> Mean(S, n),
                     anomaly_type  |-> "seasonal",
                     severity      |-> IF SeasonalExceeds(n, S, V, data[k], 35)
                                       THEN "high" ELSE "medium",
                     pattern_type  |-> day] >>
            ELSE <<>>])

detect_seasonal_anomalies(hd, provider) ==
    IF ~InStore(hd, provider) THEN <<>>
    ELSE LET df == DataFrame(hd["dates"], hd[provider])
         IN  Flatten([d \in 1..DaysPerWeek |-> SeasonalBucket(df, d - 1)])

-----------------------------------------------------------------------------
(* comprehensive_anomaly_detection: the aggregation of the candidates *)

\* severity_scores.get(severity, 0)
_get_severity_score(severity) ==
    CASE severity = "low"    -> 1
      [] severity = "medium" -> 2
      [] severity = "high"   -> 3
      [] OTHER               -> 0

\* Variant: the lists are joined in the order the detectors finished.
ConcatenateAsFinished(found, finished) ==
    Flatten([k \in 1..Len(finished) |-> found[finished[k]]])

\* statistical_anomalies + ml_anomalies + trend_anomalies + seasonal_anomalies:
\* the operands are named, whatever order the detectors finished in
Concatenate(found, finished) ==
    found["statistical"] \o found["ml"] \o found["trend"] \o found["seasonal"]

\* Variant: a candidate of equal severity replaces the one kept.
KeepOneLenient(kept, anomaly) ==
    IF \E i \in 1..Len(kept) : kept[i].date = anomaly.date
    THEN LET i == CHOOSE j \in 1..Len(kept) : kept[j].date = anomaly.date
         IN  IF _get_severity_score(anomaly.severity) >=
                    _get_severity_score(kept[i].severity)
             THEN [kept EXCEPT ![i] = anomaly]
             ELSE kept
    ELSE Append(kept, anomaly)

\* one turn of the loop over all_anomalies; kept is unique_anomalies as
\* the sequence of its values (a dict keeps the order of first insertion,
\* and an assignment to a present key keeps the key's place)
KeepOne(kept, anomaly) ==
    IF \E i \in 1..Len(kept) : kept[i].date = anomaly.date
    THEN LET i == CHOOSE j \in 1..Len(kept) : kept[j].date = anomaly.date
         IN  IF _get_severity_score(anomaly.severity) >
                    _get_severity_score(kept[i].severity)
             THEN [kept EXCEPT ![i] = anomaly]
             ELSE kept
    ELSE Append(kept, anomaly)

RECURSIVE Deduplicate(_, _, _)
\* list(unique_anomalies.values()) after the loop has seen all[k..]
Deduplicate(all, k, kept) ==
    IF k > Len(all) THEN kept
    ELSE Deduplicate(all, k + 1, KeepOne(kept, all[k]))

CountWhere(seq, Test(_)) == Cardinality({i \in 1..Len(seq) : Test(seq[i])})

\* Variant: the counts are taken over the candidates.
CategorizeCandidates(provider, all, unique) ==
    [provider              |-> provider,
     total_anomalies       |-> Len(unique),
     anomalies_by_type     |->
         [ty \in {all[i].anomaly_type : i \in 1..Len(all)} |->
             CountWhere(all, LAMBDA a : a.anomaly_type = ty)],
     anomalies_by_severity |->
         [sv \in {"low", "medium", "high"} |->
             CountWhere(all, LAMBDA a : a.severity = sv)],
     all_anomalies         |-> unique]

\* results, as returned: the counts are taken over results['all_anomalies']
Categorize(provider, all, unique) ==
    [provider              |-> provider,
     total_anomalies       |-> Len(unique),
     anomalies_by_type     |->
         [ty \in {unique[i].anomaly_type : i \in 1..Len(unique)} |->
             CountWhere(unique, LAMBDA a : a.anomaly_type = ty)],
     anomalies_by_severity |->
         [sv \in {"low", "medium", "high"} |->
             CountWhere(unique, LAMBDA a : a.severity = sv)],
     all_anomalies         |-> unique]

-----------------------------------------------------------------------------
(* The state of the program. *)

VARIABLES
    historical_data,   \* self.historical_data
    isolation_forest,  \* self.isolation_forest, the one estimator object
    calls,             \* per thread: an activation of comprehensive_anomaly_detection
    report             \* the activation of generate_anomaly_report

vars == <<historical_data, isolation_forest, calls, report>>

\* The threads that may call into one detector object; the program itself
\* (main) runs on Main alone.
Main == "main"
Threads == {"main", "worker"}

Detectors == {"statistical", "ml", "trend", "seasonal"}

NoFound == [d \in Detectors |-> <<>>]

NoResults ==
    [provider |-> "", total_anomalies |-> 0, anomalies_by_type |-> <<>>,
     anomalies_by_severity |-> [sv \in {"low", "medium", "high"} |-> 0],
     all_anomalies |-> <<>>]

\* what a caller holds of the call it made just before, for the same
\* provider: how it ended, and the results it returned
NoCall == [outcome |-> "none", finished |-> <<>>, results |-> NoResults]

\* caller: "user" and "report" call comprehensive_anomaly_detection,
\* "direct" calls one detect_* method, with arg its window or threshold
IdleCall ==
    [pc |-> "idle", provider |-> "", caller |-> "", arg |-> 0,
     previous |-> NoCall, found |-> NoFound, features |-> <<>>,
     predictions |-> <<>>, finished |-> <<>>, results |-> NoResults]

IdleReport ==
    [pc |-> "idle", providers |-> <<>>, idx |-> 1, sections |-> <<>>,
     total_anomalies |-> 0, high_severity_count |-> 0]

-----------------------------------------------------------------------------
(* The stores the detector is loaded with: every provider's series has one *)
(* cost per date, the dates are consecutive days in one notation, and a    *)
(* series is flat at a base cost except for up to three days.              *)

\* The flat level of the aws series.
BaseCost == 4
\* The day of the first date.
FirstDay == 4

Lengths == {0, 1, ShortWindow + 4, DefaultWindowDays + 1, MaxLen}

\* where a spike may stand: the first day, a day with a full trailing week,
\* a day with a full centered window, the last day
Slots(n) == {k \in {1, ShortWindow + 2, (DefaultWindowDays \div 2) + 1, n} :
                 1 <= k /\ k <= n}

\* an ordinary cost
Heights == {0, BaseCost + 1, MaxCost}

\* a cost beyond float32, which the estimator's input validation rejects
Overflow == MaxCost + 1

Dates(n, fmt) == [i \in 1..n |-> [day |-> FirstDay + i - 1, fmt |-> fmt]]

Flat(n, base, spikes) ==
    [i \in 1..n |-> IF i \in DOMAIN spikes THEN spikes[i] ELSE base]

\* no spike, one spike, one overflowing cost, a spike before a high last
\* day, or two days at a higher level before a high last day
Spikes(n) ==
    {<<>>}
    \cup {k :> h : k \in Slots(n), h \in Heights}
    \cup {k :> Overflow : k \in Slots(n) \cap {1}}
    \cup {(k :> h) @@ (n :> MaxCost) :
              k \in Slots(n) \ {n}, h \in {BaseCost + 1, MaxCost}}
    \cup {(k :> BaseCost + 2) @@ (k + 1 :> BaseCost + 2) @@ (n :> MaxCost) :
              k \in {ShortWindow + 2} \cap 1..(n - 2)}

\* the notations of the dates: the longest and the shortest series are
\* drawn in '%Y-%m-%d' alone
Formats(n) ==
    IF n \in {ShortWindow + 4, DefaultWindowDays + 1}
    THEN {"iso", "alt"} ELSE {"iso"}

StoresOf(n) ==
    {[dates |-> Dates(n, fmt),
      aws   |-> Flat(n, BaseCost, sp),
      gcp   |-> Flat(n, BaseCost - 2, (n :> MaxCost))] :
        fmt \in Formats(n), sp \in Spikes(n)}

Stores == UNION {StoresOf(n) : n \in Lengths}

\* the stores of the runs with two threads, or with the detectors of a
\* call in any order
ShortStores == StoresOf(ShortWindow + 4)

\* the providers a caller may name; "azure" is in no store
ProviderArgs == {"aws", "gcp", "azure"}

\* the provider lists generate_anomaly_report is called with
ProviderLists == {<<"aws", "gcp">>, <<"gcp", "aws">>, <<"azure", "gcp">>}

\* providers: List[str] = None: a list, or no argument
ReportArgs ==
    {[none |-> FALSE, list |-> ps] : ps \in ProviderLists}
    \cup {[none |-> TRUE, list |-> <<>>]}

Init ==
    /\ historical_data \in Stores
    /\ isolation_forest = IsolationForest(SensitivityPercent)
    /\ calls = [t \in Threads |-> IdleCall]
    /\ report = IdleReport

-----------------------------------------------------------------------------
(* comprehensive_anomaly_detection(provider), statement by statement. *)

Enter(t, provider, caller, previous, pc) ==
    calls' = [calls EXCEPT ![t] = [IdleCall EXCEPT !.pc = pc,
                                                   !.provider = provider,
                                                   !.caller = caller,
                                                   !.previous = previous]]

Ended(c) == [outcome |-> c.pc, finished |-> c.finished, results |-> c.results]

\* a caller invokes comprehensive_anomaly_detection(provider)
Call(t, provider) ==
    /\ calls[t].pc = "idle"
    /\ t = Main => report.pc = "idle"
    /\ Enter(t, provider, "user", NoCall, "statistical")
    /\ UNCHANGED <<historical_data, isolation_forest, report>>

\* the caller, its call ended, makes the same call again at once
Repeat(t) ==
    /\ calls[t].pc \in {"returned", "raised"}
    /\ calls[t].caller = "user"
    /\ Enter(t, calls[t].provider, "user", Ended(calls[t]), "statistical")
    /\ UNCHANGED <<historical_data, isolation_forest, report>>

Finish(c, detector, anomalies, pc) ==
    [c EXCEPT !.found[detector] = anomalies,
              !.finished = Append(c.finished, detector),
              !.pc = pc]

\* Variant: the dates are parsed and rewritten in the store itself
\* (self.historical_data['dates'] in place of the frame's column).
StatisticalInPlace(t) ==
    /\ calls[t].pc = "statistical"
    /\ calls' = [calls EXCEPT ![t] =
           IF NonNumeric(historical_data, calls[t].provider)
           THEN [calls[t] EXCEPT !.pc = "raised"]
           ELSE Finish(calls[t], "statistical",
                       detect_statistical_anomalies(historical_data,
                           calls[t].provider, DefaultWindowDays), "ml")]
    /\ historical_data' =
           IF InStore(historical_data, calls[t].provider)
           THEN [historical_data EXCEPT !["dates"] =
                    [i \in 1..Len(historical_data["dates"]) |->
                        strftime(to_datetime(historical_data["dates"][i]))]]
           ELSE historical_data
    /\ UNCHANGED <<isolation_forest, report>>

\* statistical_anomalies = self.detect_statistical_anomalies(provider);
\* the rolling mean of a column of strings raises
Statistical(t) ==
    /\ calls[t].pc = "statistical"
    /\ calls' = [calls EXCEPT ![t] =
           IF NonNumeric(historical_data, calls[t].provider)
           THEN [calls[t] EXCEPT !.pc = "raised"]
           ELSE Finish(calls[t], "statistical",
                       detect_statistical_anomalies(historical_data,
                           calls[t].provider, DefaultWindowDays), "ml")]
    /\ UNCHANGED <<historical_data, isolation_forest, report>>

\* detect_ml_anomalies, the provider in the store, up to
\* self.isolation_forest.fit(features)
MlFitPresent(t) ==
    LET features == _extract_features(historical_data[calls[t].provider])
    IN  IF FitRaises(features)
        THEN /\ calls' = [calls EXCEPT ![t].features = features,
                                       ![t].pc = "raised"]
             /\ UNCHANGED isolation_forest
        ELSE /\ calls' = [calls EXCEPT ![t].features = features,
                                       ![t].pc = "ml_predict"]
             /\ isolation_forest' = fit(isolation_forest, features)

\* Variant: no test of the provider; self.historical_data[provider] raises
\* KeyError for a provider the store does not hold.
MlFitUnguarded(t) ==
    /\ calls[t].pc = "ml"
    /\ IF ~InStore(historical_data, calls[t].provider)
       THEN /\ calls' = [calls EXCEPT ![t].pc = "raised"]
            /\ UNCHANGED isolation_forest
       ELSE MlFitPresent(t)
    /\ UNCHANGED <<historical_data, report>>

\* ml_anomalies = self.detect_ml_anomalies(provider), up to the fit
MlFit(t) ==
    /\ calls[t].pc = "ml"
    /\ IF ~InStore(historical_data, calls[t].provider)
       THEN /\ calls' = [calls EXCEPT ![t] = Finish(calls[t], "ml", <<>>, "trend")]
            /\ UNCHANGED isolation_forest
       ELSE MlFitPresent(t)
    /\ UNCHANGED <<historical_data, report>>

\* predictions = self.isolation_forest.predict(features)
MlPredict(t) ==
    /\ calls[t].pc = "ml_predict"
    /\ calls' = [calls EXCEPT
           ![t].predictions = predict(isolation_forest, calls[t].features),
           ![t].pc = "ml_score"]
    /\ UNCHANGED <<historical_data, isolation_forest, report>>

\* anomaly_scores = self.isolation_forest.decision_function(features), and
\* the loop that collects the anomalies
MlScore(t) ==
    /\ calls[t].pc = "ml_score"
    /\ calls' = [calls EXCEPT ![t] =
           [Finish(calls[t], "ml",
                   MlCollect(calls[t].predictions,
                             decision_function(isolation_forest, calls[t].features),
                             historical_data[calls[t].provider],
                             historical_data["dates"]), "trend")
            EXCEPT !.features = <<>>, !.predictions = <<>>]]
    /\ UNCHANGED <<historical_data, isolation_forest, report>>

\* trend_anomalies = self.detect_trend_anomalies(provider)
Trend(t) ==
    /\ calls[t].pc = "trend"
    /\ calls' = [calls EXCEPT ![t] =
           Finish(calls[t], "trend",
                  detect_trend_anomalies(historical_data, calls[t].provider,
                                         DefaultThresholdPercent), "seasonal")]
    /\ UNCHANGED <<historical_data, isolation_forest, report>>

\* seasonal_anomalies = self.detect_seasonal_anomalies(provider)
Seasonal(t) ==
    /\ calls[t].pc = "seasonal"
    /\ calls' = [calls EXCEPT ![t] =
           Finish(calls[t], "seasonal",
                  detect_seasonal_anomalies(historical_data, calls[t].provider),
                  "aggregate")]
    /\ UNCHANGED <<historical_data, isolation_forest, report>>

\* from "Combine all anomalies" to return results
Aggregate(t) ==
    /\ calls[t].pc = "aggregate"
    /\ LET all == Concatenate(calls[t].found, calls[t].finished)
       IN  calls' = [calls EXCEPT
               ![t].results = Categorize(calls[t].provider, all,
                                         Deduplicate(all, 1, <<>>)),
               ![t].pc = "returned"]
    /\ UNCHANGED <<historical_data, isolation_forest, report>>

\* the caller is done with the results, or with the exception
Return(t) ==
    /\ calls[t].pc \in {"returned", "raised"}
    /\ calls[t].caller \in {"user", "direct"}
    /\ calls' = [calls EXCEPT ![t] = IdleCall]
    /\ UNCHANGED <<historical_data, isolation_forest, report>>

-----------------------------------------------------------------------------
(* generate_anomaly_report(providers), on the main thread. *)

ReportStart(providers) ==
    /\ report.pc = "idle"
    /\ calls[Main].pc = "idle"
    /\ report' = [IdleReport EXCEPT
           !.pc = "loop",
           !.providers = IF providers.none THEN keys(historical_data)
                         ELSE providers.list]
    /\ UNCHANGED <<historical_data, isolation_forest, calls>>

\* for provider in providers: if provider in self.historical_data:
\*     results = self.comprehensive_anomaly_detection(provider)
ReportNext ==
    /\ report.pc = "loop"
    /\ report.idx <= Len(report.providers)
    /\ IF InStore(historical_data, report.providers[report.idx])
       THEN /\ Enter(Main, report.providers[report.idx], "report", NoCall,
                     "statistical")
            /\ report' = [report EXCEPT !.pc = "waiting"]
       ELSE /\ report' = [report EXCEPT !.idx = report.idx + 1]
            /\ UNCHANGED calls
    /\ UNCHANGED <<historical_data, isolation_forest>>

\* the lines of the report for one provider, and the running totals
ReportCollect ==
    /\ report.pc = "waiting"
    /\ calls[Main].pc = "returned"
    /\ LET r == calls[Main].results
       IN  report' = [report EXCEPT
               !.pc = "loop",
               !.idx = report.idx + 1,
               !.sections = Append(report.sections,
                   [provider |-> r.provider,
                    total    |-> r.total_anomalies,
                    severity |-> r.anomalies_by_severity,
                    methods  |-> r.anomalies_by_type]),
               !.total_anomalies = report.total_anomalies + r.total_anomalies,
               !.high_severity_count =
                   report.high_severity_count + r.anomalies_by_severity["high"]]
    /\ calls' = [calls EXCEPT ![Main] = IdleCall]
    /\ UNCHANGED <<historical_data, isolation_forest>>

\* no try/except stands around the call: its exception leaves the loop and
\* generate_anomaly_report, and the report built so far is lost
ReportAbort ==
    /\ report.pc = "waiting"
    /\ calls[Main].pc = "raised"
    /\ report' = [report EXCEPT !.pc = "raised", !.sections = <<>>]
    /\ calls' = [calls EXCEPT ![Main] = IdleCall]
    /\ UNCHANGED <<historical_data, isolation_forest>>

\* return report
ReportReturn ==
    /\ report.pc = "loop"
    /\ report.idx > Len(report.providers)
    /\ report' = [report EXCEPT !.pc = "done"]
    /\ UNCHANGED <<historical_data, isolation_forest, calls>>

\* the caller is back in control
ReportEnd ==
    /\ report.pc \in {"done", "raised"}
    /\ report' = IdleReport
    /\ UNCHANGED <<historical_data, isolation_forest, calls>>

-----------------------------------------------------------------------------
(* The program: one thread. *)

Next ==
    \/ \E p \in ProviderArgs : Call(Main, p)
    \/ Statistical(Main)
    \/ MlFit(Main)
    \/ MlPredict(Main)
    \/ MlScore(Main)
    \/ Trend(Main)
    \/ Seasonal(Main)
    \/ Aggregate(Main)
    \/ Repeat(Main)
    \/ Return(Main)
    \/ \E ps \in ReportArgs : ReportStart(ps)
    \/ ReportNext
    \/ ReportCollect
    \/ ReportAbort
    \/ ReportReturn
    \/ ReportEnd

Spec == Init /\ [][Next]_vars

-----------------------------------------------------------------------------
(* Two threads calling into the one detector object. *)

InitConc ==
    /\ historical_data \in ShortStores
    /\ isolation_forest = IsolationForest(SensitivityPercent)
    /\ calls = [t \in Threads |-> IdleCall]
    /\ report = IdleReport

NextConc ==
    \E t \in Threads :
        \/ \E p \in ProviderArgs : Call(t, p)
        \/ Statistical(t)
        \/ MlFit(t)
        \/ MlPredict(t)
        \/ MlScore(t)
        \/ Trend(t)
        \/ Seasonal(t)
        \/ Aggregate(t)
        \/ Return(t)

SpecConc == InitConc /\ [][NextConc]_vars

-----------------------------------------------------------------------------
(* The four detectors of one call as four tasks, run in any order and      *)
(* joined before the aggregation.                                          *)

Pending(t, detector) ==
    /\ calls[t].pc = "parallel"
    /\ detector \notin Range(calls[t].finished)

ParCall(t, provider) ==
    /\ calls[t].pc = "idle"
    /\ Enter(t, provider, "user", NoCall, "parallel")
    /\ UNCHANGED <<historical_data, isolation_forest, report>>

ParRepeat(t) ==
    /\ calls[t].pc \in {"returned", "raised"}
    /\ Enter(t, calls[t].provider, "user", Ended(calls[t]), "parallel")
    /\ UNCHANGED <<historical_data, isolation_forest, report>>

ParStatistical(t) ==
    /\ Pending(t, "statistical")
    /\ calls' = [calls EXCEPT ![t] =
           Finish(calls[t], "statistical",
                  detect_statistical_anomalies(historical_data,
                      calls[t].provider, DefaultWindowDays), "parallel")]
    /\ UNCHANGED <<historical_data, isolation_forest, report>>

\* detect_ml_anomalies(provider) as one step: it returns the anomalies and
\* leaves the estimator fitted, or raises what fit raises
MlWhole(c, forest, hd, pc) ==
    IF ~InStore(hd, c.provider)
    THEN [call |-> Finish(c, "ml", <<>>, pc), forest |-> forest]
    ELSE LET features == _extract_features(hd[c.provider])
             fitted   == fit(forest, features)
         IN  IF FitRaises(features)
             THEN [call |-> [c EXCEPT !.pc = "raised"], forest |-> forest]
             ELSE [call |-> Finish(c, "ml",
                                MlCollect(predict(fitted, features),
                                          decision_function(fitted, features),
                                          hd[c.provider], hd["dates"]), pc),
                   forest |-> fitted]

ParMl(t) ==
    /\ Pending(t, "ml")
    /\ LET r == MlWhole(calls[t], isolation_forest, historical_data, "parallel")
       IN  /\ calls' = [calls EXCEPT ![t] = r.call]
           /\ isolation_forest' = r.forest
    /\ UNCHANGED <<historical_data, report>>

ParTrend(t) ==
    /\ Pending(t, "trend")
    /\ calls' = [calls EXCEPT ![t] =
           Finish(calls[t], "trend",
                  detect_trend_anomalies(historical_data, calls[t].provider,
                                         DefaultThresholdPercent), "parallel")]
    /\ UNCHANGED <<historical_data, isolation_forest, report>>

ParSeasonal(t) ==
    /\ Pending(t, "seasonal")
    /\ calls' = [calls EXCEPT ![t] =
           Finish(calls[t], "seasonal",
                  detect_seasonal_anomalies(historical_data, calls[t].provider),
                  "parallel")]
    /\ UNCHANGED <<historical_data, isolation_forest, report>>

Join(t) ==
    /\ calls[t].pc = "parallel"
    /\ Range(calls[t].finished) = Detectors
    /\ calls' = [calls EXCEPT ![t].pc = "aggregate"]
    /\ UNCHANGED <<historical_data, isolation_forest, report>>

InitPar == InitConc

NextPar ==
    \/ \E p \in ProviderArgs : ParCall(Main, p)
    \/ ParRepeat(Main)
    \/ ParStatistical(Main)
    \/ ParMl(Main)
    \/ ParTrend(Main)
    \/ ParSeasonal(Main)
    \/ Join(Main)
    \/ Aggregate(Main)
    \/ Return(Main)

SpecPar == InitPar /\ [][NextPar]_vars

-----------------------------------------------------------------------------
(* The detect_* methods called one at a time, with any window and          *)
(* threshold, on the stores above and on constant series of every length.  *)

ConstantStores ==
    {[dates |-> Dates(n, "iso"),
      aws   |-> [i \in 1..n |-> c],
      gcp   |-> [i \in 1..n |-> BaseCost - 2]] :
        n \in 0..MaxLen, c \in {0, BaseCost, MaxCost}}

\* a store of one series in '%Y-%m-%d' dates, beside a flat second one
StoreOf(costs) ==
    [dates |-> Dates(Len(costs), "iso"),
     aws   |-> costs,
     gcp   |-> [i \in 1..Len(costs) |-> BaseCost - 2]]

\* series of fewer than 7 days that end on a high day
BriefStores ==
    {StoreOf(Flat(n, BaseCost, (n :> MaxCost))) : n \in 1..(ShortWindow - 1)}

\* a window of 9 days of mean 1 and standard deviation 2 around a cost of 6,
\* whose z-score is 2.5
AtCut == <<0, 0, 1, 0, 6, 0, 2, 0, 0>>

\* a window of 15 days of mean 1 and standard deviation 2 around a cost of
\* 8, whose z-score is 3.5
AtHighCut == <<0, 0, 0, 1, 1, 1, 1, 8, 1, 1, 1, 0, 0, 0, 0>>

BoundaryStores == {StoreOf(AtCut), StoreOf(AtHighCut)}

\* days of no cost before a day, or before days, of some cost
ZeroBaseStores ==
    LET n == ShortWindow + 4
    IN  {StoreOf(Flat(n, 0, sp)) :
            sp \in {(ShortWindow + 2 :> BaseCost),
                    [i \in (ShortWindow + 2)..n |-> BaseCost]}}

\* the day of the spike in the scenario of a flat series with one spike
SpikeDay == 15

\* a flat series whose 15th day costs more than twice the level
ScenarioStores == {StoreOf(Flat(MaxLen, BaseCost, (SpikeDay :> MaxCost)))}

\* whole weeks of days from a Monday on: the Mondays cost 5 times what the
\* other days cost, but for the Monday of week `odd`, which costs what the
\* other days cost
Weekly(weeks, odd) ==
    [i \in 1..(DaysPerWeek * weeks) |->
        IF (i - 1) % DaysPerWeek = 0 /\ i # DaysPerWeek * (odd - 1) + 1
        THEN 5 ELSE 1]

\* weeks of history
HistoryWeeks == {4, DaysPerWeek + 1, DaysPerWeek + 2, 2 * DaysPerWeek + 1}

WeeklyStores ==
    {[dates |-> [i \in 1..Len(costs) |->
                    [day |-> DaysPerWeek + i - 1, fmt |-> "iso"]],
      aws   |-> costs,
      gcp   |-> [i \in 1..Len(costs) |-> 1]] :
        costs \in {Weekly(w, odd) : w \in HistoryWeeks, odd \in {1, 2}}}

\* 90 days at 100 but for one day at 250 and the day 10 days later at 180,
\* in units of 5; the first of the two is the 15th day or the day of index 15
Quarter(first) == Flat(90, 20, (first :> 50) @@ (first + 10 :> 36))

QuarterStores == {StoreOf(Quarter(first)) : first \in {15, 16}}

DetectStores ==
    Stores \cup ConstantStores \cup BriefStores \cup BoundaryStores
           \cup ZeroBaseStores \cup ScenarioStores \cup WeeklyStores
           \cup QuarterStores

\* window_days
Windows ==
    (1..MaxWindow) \cup {Len(AtCut), Len(AtHighCut), DefaultWindowDays}

\* threshold_percent, positive
Thresholds == {1, DefaultThresholdPercent, HighTrendPercent}

Direct(t, provider, arg, detector, anomalies) ==
    /\ calls' = [calls EXCEPT ![t] =
           Finish([IdleCall EXCEPT !.provider = provider, !.caller = "direct",
                                   !.arg = arg],
                  detector, anomalies, "returned")]
    /\ UNCHANGED <<historical_data, isolation_forest, report>>

DetectStatistical(t, provider, window_days) ==
    /\ calls[t].pc = "idle"
    /\ report.pc = "idle"
    /\ Direct(t, provider, window_days, "statistical",
           detect_statistical_anomalies(historical_data, provider, window_days))

DetectTrend(t, provider, threshold_percent) ==
    /\ calls[t].pc = "idle"
    /\ report.pc = "idle"
    /\ Direct(t, provider, threshold_percent, "trend",
           detect_trend_anomalies(historical_data, provider, threshold_percent))

DetectSeasonal(t, provider) ==
    /\ calls[t].pc = "idle"
    /\ report.pc = "idle"
    /\ Direct(t, provider, 0, "seasonal",
           detect_seasonal_anomalies(historical_data, provider))

DetectMl(t, provider) ==
    /\ calls[t].pc = "idle"
    /\ report.pc = "idle"
    /\ LET r == MlWhole([IdleCall EXCEPT !.provider = provider,
                                         !.caller = "direct"],
                        isolation_forest, historical_data, "returned")
       IN  /\ calls' = [calls EXCEPT ![t] = r.call]
           /\ isolation_forest' = r.forest
    /\ UNCHANGED <<historical_data, report>>

InitDetect ==
    /\ historical_data \in DetectStores
    /\ isolation_forest = IsolationForest(SensitivityPercent)
    /\ calls = [t \in Threads |-> IdleCall]
    /\ report = IdleReport

NextDetect ==
    \/ \E p \in ProviderArgs, w \in Windows : DetectStatistical(Main, p, w)
    \/ \E p \in ProviderArgs, th \in Thresholds : DetectTrend(Main, p, th)
    \/ \E p \in ProviderArgs : DetectSeasonal(Main, p)
    \/ \E p \in ProviderArgs : DetectMl(Main, p)
    \/ Return(Main)

SpecDetect == InitDetect /\ [][NextDetect]_vars

-----------------------------------------------------------------------------
(* Properties of comprehensive_anomaly_detection and of the report run.    *)

\* the calls of comprehensive_anomaly_detection that have returned
ReturnedCalls ==
    {t \in Threads : calls[t].pc = "returned" /\ calls[t].caller # "direct"}

\* the candidates the four detectors of call t emitted
Candidates(t) == Concatenate(calls[t].found, calls[t].finished)

RECURSIVE SumOver(_, _)
SumOver(f, S) ==
    IF S = {} THEN 0
    ELSE LET x == CHOOSE y \in S : TRUE IN f[x] + SumOver(f, S \ {x})

\* C1: the list all_anomalies a call returns holds at most one anomaly per
\* calendar day, and the anomaly kept for a day is at least as severe as
\* every candidate the four detectors emitted for that day.
C1_OnePerDayMaxSeverity ==
    \A t \in ReturnedCalls :
        LET kept == calls[t].results.all_anomalies
            cand == Candidates(t)
        IN  /\ \A i, j \in 1..Len(kept) :
                   i # j => to_datetime(kept[i].date) # to_datetime(kept[j].date)
            /\ \A i \in 1..Len(kept), k \in 1..Len(cand) :
                   to_datetime(cand[k].date) = to_datetime(kept[i].date)
                   => _get_severity_score(cand[k].severity)
                          <= _get_severity_score(kept[i].severity)

\* C2: a call made right after a call for the same provider has returned,
\* the store unchanged, returns the same results: the same total, the same
\* counts by type and by severity, the same anomalies in the same order.
C2_Idempotent ==
    \A t \in Threads :
        (calls[t].pc = "returned" /\ calls[t].previous.outcome = "returned")
        => calls[t].results = calls[t].previous.results

\* the second of two calls has returned anomalies, one of the estimator's
C2_RepeatedWithFindings ==
    /\ calls[Main].pc = "returned"
    /\ calls[Main].previous.outcome = "returned"
    /\ calls[Main].results.total_anomalies >= 2
    /\ \E i \in 1..Len(calls[Main].results.all_anomalies) :
           calls[Main].results.all_anomalies[i].anomaly_type = "isolation_forest"

\* C3: a call for a provider the store does not hold raises nothing, each
\* detector returns no candidate, and the results count no anomaly: total 0,
\* an empty list, no type, zero low, medium and high.
C3_AbsentProviderEmpty ==
    \A t \in Threads :
        (calls[t].pc # "idle" /\ ~InStore(historical_data, calls[t].provider))
        => /\ calls[t].pc # "raised"
           /\ \A d \in Detectors : calls[t].found[d] = <<>>
           /\ calls[t].pc = "returned"
              => /\ calls[t].results.provider = calls[t].provider
                 /\ calls[t].results.total_anomalies = 0
                 /\ calls[t].results.all_anomalies = <<>>
                 /\ DOMAIN calls[t].results.anomalies_by_type = {}
                 /\ \A sv \in {"low", "medium", "high"} :
                        calls[t].results.anomalies_by_severity[sv] = 0

\* a call for a provider outside a store of some length has returned, all
\* four detectors run
C3_AbsentProviderReturned ==
    /\ calls[Main].pc = "returned"
    /\ calls[Main].caller = "user"
    /\ ~InStore(historical_data, calls[Main].provider)
    /\ Len(historical_data["dates"]) > DefaultWindowDays
    /\ Range(calls[Main].finished) = Detectors

\* C4: a call for a provider the store holds with an empty series raises
\* nothing and returns results with total_anomalies = 0.
C4_EmptySeriesNoException ==
    \A t \in Threads :
        (/\ calls[t].pc # "idle"
         /\ calls[t].caller # "direct"
         /\ InStore(historical_data, calls[t].provider)
         /\ Len(historical_data[calls[t].provider]) = 0)
        => /\ calls[t].pc # "raised"
           /\ calls[t].pc = "returned" => calls[t].results.total_anomalies = 0

\* the providers of the report run whose own detection raises nothing
FitsAlone(provider) ==
    /\ InStore(historical_data, provider)
    /\ ~NonNumeric(historical_data, provider)
    /\ ~FitRaises(_extract_features(historical_data[provider]))

\* C8: when generate_anomaly_report ends, in whichever way, it has a section
\* for every listed provider whose own detection does not fail, wherever
\* a provider whose model fit fails stands in the list.
C8_FitFailureLocal ==
    report.pc \in {"done", "raised"}
    => \A k \in 1..Len(report.providers) :
           FitsAlone(report.providers[k])
           => \E i \in 1..Len(report.sections) :
                  report.sections[i].provider = report.providers[k]

\* C9: the list all_anomalies a call returns is in increasing order of date.
C9_SortedByDate ==
    \A t \in ReturnedCalls :
        LET kept == calls[t].results.all_anomalies
        IN  \A i, j \in 1..Len(kept) :
                i < j => to_datetime(kept[i].date) <= to_datetime(kept[j].date)

\* C10: in the results of every call, total_anomalies is the length of
\* all_anomalies, the sum of the counts by severity and the sum of the
\* counts by type; each count by type and by severity is the number of
\* anomalies of all_anomalies, the list after deduplication, with that type
\* or severity.
C10_CountsOverKept ==
    \A t \in ReturnedCalls :
        LET r    == calls[t].results
            kept == r.all_anomalies
        IN  /\ r.total_anomalies = Len(kept)
            /\ r.total_anomalies =
                   SumOver(r.anomalies_by_severity, {"low", "medium", "high"})
            /\ r.total_anomalies =
                   SumOver(r.anomalies_by_type, DOMAIN r.anomalies_by_type)
            /\ DOMAIN r.anomalies_by_type =
                   {kept[i].anomaly_type : i \in 1..Len(kept)}
            /\ \A ty \in DOMAIN r.anomalies_by_type :
                   r.anomalies_by_type[ty] =
                       CountWhere(kept, LAMBDA a : a.anomaly_type = ty)
            /\ \A sv \in {"low", "medium", "high"} :
                   r.anomalies_by_severity[sv] =
                       CountWhere(kept, LAMBDA a : a.severity = sv)

\* a call has returned fewer anomalies than its detectors emitted candidates
C10_DuplicatesDropped ==
    /\ calls[Main].pc = "returned"
    /\ calls[Main].caller # "direct"
    /\ calls[Main].results.total_anomalies >= 2
    /\ Len(Candidates(Main)) > calls[Main].results.total_anomalies
    /\ Cardinality(DOMAIN calls[Main].results.anomalies_by_type) >= 2

-----------------------------------------------------------------------------
(* Properties of the detectors, of their order and of concurrent calls.    *)

IsConstant(costs) == \A i, j \in 1..Len(costs) : costs[i] = costs[j]

\* a detect_* method, called by itself on a constant series, has returned
ConstantDetected(detector) ==
    /\ calls[Main].pc = "returned"
    /\ calls[Main].caller = "direct"
    /\ calls[Main].finished = <<detector>>
    /\ InStore(historical_data, calls[Main].provider)
    /\ IsConstant(historical_data[calls[Main].provider])

\* C5: on a series of any length whose days all have the same cost,
\* detect_statistical_anomalies (z-score and IQR test), with any window,
\* detect_trend_anomalies, with any positive threshold, and
\* detect_seasonal_anomalies each return the empty list.
C5_ConstantSeriesNoAnomaly ==
    \A d \in {"statistical", "trend", "seasonal"} :
        ConstantDetected(d) => calls[Main].found[d] = <<>>

\* the statistical detector has returned on a constant positive series long
\* enough for its rolling window, whose standard deviation is zero
C5_ZeroVarianceWindow ==
    /\ ConstantDetected("statistical")
    /\ calls[Main].arg >= 2
    /\ Len(historical_data[calls[Main].provider]) > calls[Main].arg
    /\ historical_data[calls[Main].provider][1] > 0

\* the estimator as call t alone would fit it
OwnForest(t) ==
    fit(IsolationForest(SensitivityPercent),
        _extract_features(historical_data[calls[t].provider]))

\* C6: in every interleaving of two calls, the predictions and the scores a
\* call uses are those of an estimator fitted on the feature matrix of the
\* call's own provider.
C6_OwnModelInstance ==
    \A t \in Threads :
        LET c        == calls[t]
            features == _extract_features(historical_data[c.provider])
        IN  (/\ c.caller = "user"
             /\ InStore(historical_data, c.provider)
             /\ ~FitRaises(features))
            => /\ c.pc = "ml_score"
                  => c.predictions = predict(OwnForest(t), features)
               /\ "ml" \in Range(c.finished)
                  => c.found["ml"] =
                         MlCollect(predict(OwnForest(t), features),
                                   decision_function(OwnForest(t), features),
                                   historical_data[c.provider],
                                   historical_data["dates"])

\* C7: a call whose detectors ran in one order ends as the call before it
\* for the same provider did, whose detectors ran in any other order: it
\* raises if that one raised, and else returns the same results, the same
\* anomaly kept per date and the same order of the list included.
C7_OrderIndependent ==
    \A t \in Threads :
        (calls[t].pc \in {"returned", "raised"}
         /\ calls[t].previous.outcome # "none")
        => /\ calls[t].previous.outcome = calls[t].pc
           /\ calls[t].previous.results = calls[t].results

\* two calls whose detectors finished in different orders have returned
\* anomalies of several detectors
C7_TwoOrders ==
    /\ calls[Main].pc = "returned"
    /\ calls[Main].previous.outcome = "returned"
    /\ calls[Main].previous.finished # calls[Main].finished
    /\ calls[Main].finished[1] # "statistical"
    /\ Len(calls[Main].results.all_anomalies) >= 2
    /\ Cardinality({d \in Detectors : calls[Main].found[d] # <<>>}) >= 2

-----------------------------------------------------------------------------
(* Properties of the single detectors. *)

\* a detect_* method, called by itself for a provider of the store, has
\* returned
Detected(detector) ==
    /\ calls[Main].pc = "returned"
    /\ calls[Main].caller = "direct"
    /\ calls[Main].finished = <<detector>>
    /\ InStore(historical_data, calls[Main].provider)

\* the series, the dates and the findings of that call
DetectedCosts == historical_data[calls[Main].provider]
DetectedSeries == Series(DetectedCosts)
DetectedDates == historical_data["dates"]
Findings(detector) == calls[Main].found[detector]

\* the findings a detector reported for the i-th date of the store
FindingsAt(detector, i) ==
    {k \in 1..Len(Findings(detector)) :
        to_datetime(Findings(detector)[k].date) = to_datetime(DetectedDates[i])}

\* C11: detect_statistical_anomalies with window W returns the empty list
\* for every series of fewer than W points.
C11_ShortSeriesEmpty ==
    (Detected("statistical") /\ Len(DetectedCosts) < calls[Main].arg)
    => Findings("statistical") = <<>>

\* C12: on every series of fewer than 7 points detect_trend_anomalies and
\* detect_ml_anomalies return no finding, and neither raises.
C12_BriefSeriesNoFindings ==
    (/\ calls[Main].caller = "direct"
     /\ InStore(historical_data, calls[Main].provider)
     /\ Len(DetectedCosts) < ShortWindow
     /\ calls[Main].pc # "idle")
    => /\ calls[Main].pc # "raised"
       /\ Findings("trend") = <<>>
       /\ Findings("ml") = <<>>

\* the anomaly_type values the detectors write, and the severities
Methods == {"z_score", "iqr", "trend", "seasonal", "isolation_forest"}
Severities == {"low", "medium", "high"}

\* every candidate of every call, and every key of anomalies_by_type, has
\* its method in the set methods and its severity in Severities
MethodsWithin(methods) ==
    \A t \in Threads :
        /\ \A d \in Detectors : \A k \in 1..Len(calls[t].found[d]) :
               /\ calls[t].found[d][k].anomaly_type \in methods
               /\ calls[t].found[d][k].severity \in Severities
        /\ DOMAIN calls[t].results.anomalies_by_type \subseteq methods
        /\ \A k \in 1..Len(calls[t].results.all_anomalies) :
               /\ calls[t].results.all_anomalies[k].anomaly_type \in methods
               /\ calls[t].results.all_anomalies[k].severity \in Severities

\* C13, as the code has it: every anomaly of every detector, and so every
\* key of anomalies_by_type, has a method in {z_score, iqr, trend, seasonal,
\* isolation_forest} and a severity in {low, medium, high}.
C13_MethodsAndSeverities == MethodsWithin(Methods)

\* C13, as stated: the method of the estimator's anomalies is outlier_model.
C13_MethodsAsStated ==
    MethodsWithin({"z_score", "iqr", "trend", "seasonal", "outlier_model"})

\* a call has returned counts for the estimator's method and for another
C13_EstimatorCounted ==
    /\ calls[Main].pc = "returned"
    /\ "isolation_forest" \in DOMAIN calls[Main].results.anomalies_by_type
    /\ Cardinality(DOMAIN calls[Main].results.anomalies_by_type) >= 2
    /\ calls[Main].found["trend"] # <<>>

\* how comprehensive_anomaly_detection(provider) ends on a detector just
\* constructed and loaded with the store hd
FreshOutcome(hd, provider) ==
    IF NonNumeric(hd, provider)
    THEN [outcome |-> "raised", results |-> NoResults]
    ELSE
        LET order == <<"statistical", "ml", "trend", "seasonal">>
            c     == [IdleCall EXCEPT !.provider = provider]
            r     == MlWhole(c, IsolationForest(SensitivityPercent), hd, "trend")
            found == [d \in Detectors |->
                         CASE d = "statistical" ->
                                  detect_statistical_anomalies(hd, provider,
                                                               DefaultWindowDays)
                           [] d = "ml"          -> r.call.found["ml"]
                           [] d = "trend"       ->
                                  detect_trend_anomalies(hd, provider,
                                                         DefaultThresholdPercent)
                           [] d = "seasonal"    ->
                                  detect_seasonal_anomalies(hd, provider)]
            all   == Concatenate(found, order)
        IN  IF r.call.pc = "raised"
            THEN [outcome |-> "raised", results |-> NoResults]
            ELSE [outcome |-> "returned",
                  results |-> Categorize(provider, all, Deduplicate(all, 1, <<>>))]

\* C14: whatever calls the detector object served before, for the same or
\* for other providers, a call of comprehensive_anomaly_detection ends as it
\* does on a detector just constructed with the same store: the estimator
\* carries nothing over from earlier fits.
C14_NoCarriedState ==
    \A t \in Threads :
        (calls[t].pc \in {"returned", "raised"} /\ calls[t].caller # "direct")
        => LET fresh == FreshOutcome(historical_data, calls[t].provider)
           IN  /\ calls[t].pc = fresh.outcome
               /\ calls[t].pc = "returned" => calls[t].results = fresh.results

\* the second call of a report run has returned, with anomalies of the
\* estimator, which the first call had fitted on another provider's series
C14_AfterOtherProvider ==
    /\ calls[Main].pc = "returned"
    /\ calls[Main].caller = "report"
    /\ Len(report.sections) >= 1
    /\ report.sections[1].provider # calls[Main].provider
    /\ calls[Main].found["ml"] # <<>>

\* what the statistical call that has returned worked on: the series with
\* its running sums, the window W, and the quartiles of the whole series by
\* linear interpolation, times 4
StatisticalView ==
    [ser |-> Series(DetectedCosts),
     n   |-> Len(DetectedCosts),
     W   |-> calls[Main].arg,
     Q1  |-> IF Len(DetectedCosts) = 0 THEN 0 ELSE Quantile4(DetectedCosts, 1),
     Q3  |-> IF Len(DetectedCosts) = 0 THEN 0 ELSE Quantile4(DetectedCosts, 3)]

\* the i-th date has a full centered window of W points
WindowAt(v, i) == RollDefined(v.n, i, v.W)

\* 10 * |cost - rolling_mean| / rolling_std of the i-th date compared with
\* cut10, for a defined window of W >= 2 points with rolling_std > 0:
\* the sign of 100 * d^2 * (W - 1) - cut10^2 * W * var, where d is W * (cost
\* - rolling_mean) and var is W * (W - 1) * rolling_std^2
ZAgainst(v, i, cut10) ==
    LET lo  == RollLo(i, v.W)
        hi  == RollHi(i, v.W)
        d   == v.W * v.ser.x[i] - SumRange(v.ser, lo, hi)
        var == VarNum(v.ser, lo, hi)
    IN  100 * d * d * (v.W - 1) - cut10 * cut10 * v.W * var

\* the i-th date has a defined rolling mean and rolling_std > 0
ZDefinedAt(v, i) ==
    /\ WindowAt(v, i)
    /\ v.W >= 2
    /\ VarNum(v.ser, RollLo(i, v.W), RollHi(i, v.W)) > 0

\* the cost of the i-th date lies outside [Q1 - 1.5 IQR, Q3 + 1.5 IQR]
OutsideBoundsAt(v, i) ==
    \/ 8 * v.ser.x[i] < 2 * v.Q1 - 3 * (v.Q3 - v.Q1)
    \/ 8 * v.ser.x[i] > 2 * v.Q3 + 3 * (v.Q3 - v.Q1)

MethodsAt(detector, i) ==
    {Findings(detector)[k].anomaly_type : k \in FindingsAt(detector, i)}

\* C15: a date whose |z_score| exceeds 2.5 and whose cost lies outside the
\* IQR bounds has two candidates among the findings of
\* detect_statistical_anomalies, one of method z_score and one of method iqr.
C15_BothTestsEmit ==
    Detected("statistical")
    => LET v == StatisticalView
       IN  \A i \in 1..v.n :
               (ZDefinedAt(v, i) /\ ZAgainst(v, i, 25) > 0
                                 /\ OutsideBoundsAt(v, i))
               => /\ {"z_score", "iqr"} \subseteq MethodsAt("statistical", i)
                  /\ Cardinality(FindingsAt("statistical", i)) = 2

\* C16: detect_statistical_anomalies reports no anomaly, of any method, for
\* a date without a full centered window of W points.
C16_EdgeDatesSkipped ==
    Detected("statistical")
    => LET v == StatisticalView
       IN  \A i \in 1..v.n :
               ~WindowAt(v, i) => FindingsAt("statistical", i) = {}

\* the z_score findings for the i-th date
ZFindingsAt(i) ==
    {k \in FindingsAt("statistical", i) :
        Findings("statistical")[k].anomaly_type = "z_score"}

\* C17: for every date with a defined rolling mean and rolling_std > 0,
\* detect_statistical_anomalies emits a z_score anomaly exactly when
\* |cost - rolling_mean| / rolling_std > 2.5, of severity high when the
\* ratio exceeds 3.5 and medium otherwise; a ratio of exactly 2.5 is not
\* flagged and one of exactly 3.5 is medium.
C17_ZScoreRule ==
    Detected("statistical")
    => LET v == StatisticalView
       IN  \A i \in 1..v.n :
               ZDefinedAt(v, i)
               => /\ ZFindingsAt(i) # {} <=> ZAgainst(v, i, 25) > 0
                  /\ \A k \in ZFindingsAt(i) :
                         /\ Findings("statistical")[k].severity =
                                IF ZAgainst(v, i, 35) > 0
                                THEN "high" ELSE "medium"
                         /\ Findings("statistical")[k].cost = v.ser.x[i]

\* the detector has returned on a series with a date whose ratio is exactly
\* 3.5, which it flagged
C17_AtTheCuts ==
    /\ Detected("statistical")
    /\ LET v == StatisticalView
       IN  \E i \in 1..v.n :
               ZDefinedAt(v, i) /\ ZAgainst(v, i, 35) = 0 /\ ZFindingsAt(i) # {}

\* the dates of the store that fall on the weekday of the i-th date
BucketOf(i) ==
    {j \in 1..Len(DetectedDates) :
        dayofweek(to_datetime(DetectedDates[j])) =
            dayofweek(to_datetime(DetectedDates[i]))}

\* that bucket has a single point, or the same cost on all its dates
DegenerateBucket(i) ==
    \/ Cardinality(BucketOf(i)) < 2
    \/ \A j \in BucketOf(i) : DetectedCosts[j] = DetectedCosts[i]

\* the seven days before the i-th date cost nothing
ZeroAverage(i) ==
    /\ i > ShortWindow
    /\ \A j \in (i - ShortWindow)..(i - 1) : DetectedCosts[j] = 0

\* C18: a date whose rolling standard deviation is 0 gets no z_score
\* anomaly, a date whose trailing 7-day average is 0 gets no trend anomaly,
\* and a date whose day-of-week bucket has standard deviation 0 or fewer
\* than 2 points gets no seasonal anomaly; none of the three detectors
\* raises.
C18_DegenerateSkipped ==
    /\ Detected("statistical")
       => LET v == StatisticalView
          IN  \A i \in 1..v.n :
                  (WindowAt(v, i) /\ ~ZDefinedAt(v, i)) => ZFindingsAt(i) = {}
    /\ Detected("trend")
       => \A i \in 1..Len(DetectedCosts) :
              ZeroAverage(i) => FindingsAt("trend", i) = {}
    /\ Detected("seasonal")
       => \A i \in 1..Len(DetectedCosts) :
              DegenerateBucket(i) => FindingsAt("seasonal", i) = {}
    /\ (calls[Main].caller = "direct" /\ calls[Main].pc = "raised")
       => FitRaises(_extract_features(DetectedCosts))

\* detect_seasonal_anomalies has returned anomalies on a series with a
\* weekday whose costs are all the same
C18_FlatBucket ==
    /\ Detected("seasonal")
    /\ Findings("seasonal") # <<>>
    /\ \E i \in 1..Len(DetectedCosts) :
           DegenerateBucket(i) /\ Cardinality(BucketOf(i)) >= 2

\* the iqr findings for the i-th date
IqrFindingsAt(i) ==
    {k \in FindingsAt("statistical", i) :
        Findings("statistical")[k].anomaly_type = "iqr"}

\* |cost - mean| > 2 * std, mean and sample standard deviation of the whole
\* series, for the i-th date
FarFromMeanAt(v, i) ==
    LET d == v.n * v.ser.x[i] - SumRange(v.ser, 1, v.n)
    IN  v.n >= 2 /\ d * d * (v.n - 1) > 4 * v.n * VarNum(v.ser, 1, v.n)

\* the iqr findings for the i-th date are of the severity the rule gives
IqrSeverityAt(v, i) ==
    \A k \in IqrFindingsAt(i) :
        Findings("statistical")[k].severity =
            IF FarFromMeanAt(v, i) THEN "high" ELSE "medium"

\* C19: detect_statistical_anomalies flags a date with method iqr exactly
\* when its cost lies outside [Q1 - 1.5 IQR, Q3 + 1.5 IQR], the quartiles
\* taken over the whole series, and with severity high exactly when
\* |cost - mean| > 2 * standard deviation of the whole series.
C19_IqrRule ==
    Detected("statistical")
    => LET v == StatisticalView
       IN  \A i \in 1..v.n :
               /\ IqrFindingsAt(i) # {} <=> OutsideBoundsAt(v, i)
               /\ IqrSeverityAt(v, i)

\* the sum of the 7 costs before the i-th date
Trailing(i) ==
    LET Sum[j \in (i - ShortWindow - 1)..(i - 1)] ==
            IF j < i - ShortWindow THEN 0 ELSE Sum[j - 1] + DetectedCosts[j]
    IN  Sum[i - 1]

\* the trend finding the rule gives for the i-th date, i > 7, with trailing
\* sum S > 0: none, or one with these fields
TrendRule(i, S, threshold) ==
    LET d == ShortWindow * DetectedCosts[i] - S
    IN  IF 100 * Abs(d) > threshold * S
        THEN {[severity        |-> IF 100 * Abs(d) > 50 * S
                                   THEN "high" ELSE "medium",
               expected_cost   |-> [num |-> S, den |-> ShortWindow],
               trend_direction |-> IF d > 0 THEN "increase" ELSE "decrease",
               cost            |-> DetectedCosts[i]]}
        ELSE {}

\* the trend findings for the i-th date, by the fields the rule gives
TrendFindingsAt(i) ==
    {[severity        |-> Findings("trend")[k].severity,
      expected_cost   |-> Findings("trend")[k].expected_cost,
      trend_direction |-> Findings("trend")[k].trend_direction,
      cost            |-> Findings("trend")[k].cost] :
        k \in FindingsAt("trend", i)}

\* the call is the one of the scenario: a flat series with one spike, the
\* default threshold
InScenario ==
    /\ Detected("trend")
    /\ historical_data \in ScenarioStores
    /\ calls[Main].provider = "aws"
    /\ calls[Main].arg = DefaultThresholdPercent

\* C20: detect_trend_anomalies reports none of the first 7 dates; a later
\* date whose 7 preceding costs have the average M # 0 is reported exactly
\* when |(cost - M) / M * 100| > threshold, once, with severity high when
\* that magnitude exceeds 50 and medium otherwise, expected_cost = M, and
\* direction increase for a positive and decrease for a negative change.  In
\* the scenario of a flat series whose 15th day costs more than twice the
\* level, that day is reported with severity high.
C20_TrendRule ==
    /\ Detected("trend")
       => \A i \in 1..Len(DetectedCosts) :
              /\ Cardinality(FindingsAt("trend", i)) <= 1
              /\ i <= ShortWindow => FindingsAt("trend", i) = {}
              /\ (i > ShortWindow /\ Trailing(i) # 0)
                 => TrendFindingsAt(i) =
                        TrendRule(i, Trailing(i), calls[Main].arg)
    /\ InScenario
       => \E f \in TrendFindingsAt(SpikeDay) : f.severity = "high"

\* the scenario call has returned, the spike and nothing else reported
C20_ScenarioSpike ==
    /\ InScenario
    /\ TrendFindingsAt(SpikeDay) # {}
    /\ Len(Findings("trend")) = 1

-----------------------------------------------------------------------------
(* Properties of severities, records and the store *)

\* C21: detect_statistical_anomalies, detect_trend_anomalies and
\* detect_seasonal_anomalies produce no finding of severity low, so every
\* low-severity anomaly of a result comes from the outlier model.
C21_LowOnlyFromModel ==
    \A t \in Threads :
        /\ \A d \in {"statistical", "trend", "seasonal"} :
               \A k \in 1..Len(calls[t].found[d]) :
                   calls[t].found[d][k].severity # "low"
        /\ calls[t].pc = "returned" /\ calls[t].caller # "direct"
           => \A k \in 1..Len(calls[t].results.all_anomalies) :
                  LET a == calls[t].results.all_anomalies[k]
                  IN  a.severity = "low" => a.anomaly_type = "isolation_forest"

\* a returned result holds a low-severity anomaly next to findings of the
\* rule-based detectors
C21_LowInResult ==
    /\ calls[Main].pc = "returned"
    /\ calls[Main].caller # "direct"
    /\ \E k \in 1..Len(calls[Main].results.all_anomalies) :
           calls[Main].results.all_anomalies[k].severity = "low"
    /\ calls[Main].found["statistical"] # <<>>
    /\ calls[Main].found["trend"] # <<>>

\* sum and sum of squares of the costs of the dates in B
RECURSIVE CostSum(_)
CostSum(B) ==
    IF B = {} THEN 0
    ELSE LET j == CHOOSE k \in B : TRUE
         IN  DetectedCosts[j] + CostSum(B \ {j})

RECURSIVE CostSquares(_)
CostSquares(B) ==
    IF B = {} THEN 0
    ELSE LET j == CHOOSE k \in B : TRUE
         IN  DetectedCosts[j] * DetectedCosts[j] + CostSquares(B \ {j})

\* |cost - bucket mean| / bucket std > cut10/10 for the i-th date, the std
\* being the sample deviation of the bucket: with n points of sum S and sum
\* of squares Q, (n*c - S)^2 * (n - 1) * 100 > cut10^2 * n * (n*Q - S^2)
BucketRatioExceeds(i, cut10) ==
    LET B == BucketOf(i)
        n == Cardinality(B)
        S == CostSum(B)
        Q == CostSquares(B)
        d == n * DetectedCosts[i] - S
    IN  100 * d * d * (n - 1) > cut10 * cut10 * n * (n * Q - S * S)

\* C22: detect_seasonal_anomalies buckets the points by day of week, and for
\* every point of a bucket with at least 2 points and non-zero standard
\* deviation reports the point iff |cost - bucket_mean| / bucket_std > 2.5,
\* with severity high if the ratio exceeds 3.5 and medium otherwise, and
\* with expected_cost the mean of the bucket of the point's own weekday;
\* each date is reported at most once.
C22_SeasonalRule ==
    Detected("seasonal")
    => \A i \in 1..Len(DetectedCosts) :
           LET at == FindingsAt("seasonal", i)
               B  == BucketOf(i)
           IN  /\ Cardinality(at) <= 1
               /\ ~DegenerateBucket(i)
                  => /\ at # {} <=> BucketRatioExceeds(i, 25)
                     /\ \A k \in at :
                            LET a == Findings("seasonal")[k]
                            IN  /\ a.cost = DetectedCosts[i]
                                /\ a.anomaly_type = "seasonal"
                                /\ a.expected_cost.num * Cardinality(B)
                                       = CostSum(B) * a.expected_cost.den
                                /\ a.expected_cost.den # 0
                                /\ a.pattern_type
                                       = dayofweek(to_datetime(DetectedDates[i]))
                                /\ a.severity =
                                       IF BucketRatioExceeds(i, 35)
                                       THEN "high" ELSE "medium"

\* the detector reported a point whose ratio exceeds 3.5
C22_HighReported ==
    /\ Detected("seasonal")
    /\ \E k \in 1..Len(Findings("seasonal")) :
           Findings("seasonal")[k].severity = "high"

\* the Mondays of the series that cost what the other days cost
LowMondays ==
    {i \in 1..Len(DetectedCosts) :
        /\ dayofweek(to_datetime(DetectedDates[i])) = 0
        /\ DetectedCosts[i] = 1}

\* C23: in a series whose Mondays cost 5 times what the other days cost, a
\* single Monday at the level of the other days is flagged by
\* detect_seasonal_anomalies, whatever the number of weeks of history.
C23_LowMondayFlagged ==
    (/\ Detected("seasonal")
     /\ historical_data \in WeeklyStores
     /\ calls[Main].provider = "aws")
    => \A i \in LowMondays : FindingsAt("seasonal", i) # {}

\* the statistical findings for the dates that cost c
FindingsForCost(c) ==
    {Findings("statistical")[k] :
        k \in {j \in 1..Len(Findings("statistical")) :
                  Findings("statistical")[j].cost = c}}

\* C24: for a 90-day series at 100 but for day 15 at 250 and day 25 at 180,
\* detect_statistical_anomalies with window 30 reports day 15 with severity
\* high and day 25 with severity medium.
C24_QuarterScenario ==
    (/\ Detected("statistical")
     /\ historical_data \in QuarterStores
     /\ calls[Main].provider = "aws"
     /\ calls[Main].arg = DefaultWindowDays)
    => /\ \E a \in FindingsForCost(50) : a.severity = "high"
       /\ \E a \in FindingsForCost(36) : a.severity = "medium"

\* the candidates of call t for the date string of anomaly a that are as
\* severe as any candidate for it, by their place in the concatenation
MostSevereFor(t, a) ==
    LET cand == Candidates(t)
        same == {k \in 1..Len(cand) : cand[k].date = a.date}
    IN  {k \in same :
            \A j \in same : _get_severity_score(cand[j].severity)
                                <= _get_severity_score(cand[k].severity)}

\* C25: when several candidates for the same date share the highest
\* severity, comprehensive_anomaly_detection keeps the one that comes first
\* in the concatenation order (statistical, outlier model, trend, seasonal):
\* a later candidate replaces the one kept only if strictly more severe.
C25_FirstOfHighestKept ==
    \A t \in ReturnedCalls :
        LET kept == calls[t].results.all_anomalies
            cand == Candidates(t)
        IN  \A i \in 1..Len(kept) :
                LET top == MostSevereFor(t, kept[i])
                IN  /\ top # {}
                    /\ kept[i] = cand[CHOOSE k \in top : \A j \in top : k <= j]

\* as stated: of the candidates for a date that share the highest severity
\* the one that comes last in the concatenation order is kept
C25_LastOfHighestKept ==
    \A t \in ReturnedCalls :
        LET kept == calls[t].results.all_anomalies
            cand == Candidates(t)
        IN  \A i \in 1..Len(kept) :
                LET top == MostSevereFor(t, kept[i])
                IN  /\ top # {}
                    /\ kept[i] = cand[CHOOSE k \in top : \A j \in top : j <= k]

\* a returned call kept an anomaly for a date for which candidates of two
\* methods share the highest severity
C25_TieKept ==
    /\ calls[Main].pc = "returned"
    /\ calls[Main].caller # "direct"
    /\ \E i \in 1..Len(calls[Main].results.all_anomalies) :
           LET cand == Candidates(Main)
               top  == MostSevereFor(Main, calls[Main].results.all_anomalies[i])
           IN  \E j, k \in top :
                   cand[j].anomaly_type # cand[k].anomaly_type

\* the decision score is below -tenths/10
ScoreBelow(score, tenths) == 10 * score.num < -tenths * score.den

\* C26: detect_ml_anomalies reports exactly the points the fitted model
\* assigns to the outlier class (prediction -1), one anomaly per such point,
\* in series order, with that point's own date and cost and no
\* expected_cost; the severity is high if the decision score is below -0.5,
\* medium if it is below -0.3 and not below -0.5, and low otherwise.
C26_ModelFindings ==
    Detected("ml")
    => LET X      == _extract_features(DetectedCosts)
           preds  == predict(isolation_forest, X)
           scores == decision_function(isolation_forest, X)
           out    == {i \in 1..Len(DetectedCosts) : preds[i] = -1}
           F      == Findings("ml")
       IN  /\ Len(F) = Cardinality(out)
           /\ \A i \in out :
                  LET k == Cardinality({j \in out : j <= i})
                      a == F[k]
                  IN  /\ a.date = DetectedDates[i]
                      /\ a.cost = DetectedCosts[i]
                      /\ a.anomaly_score = scores[i]
                      /\ "expected_cost" \notin DOMAIN a
                      /\ a.severity =
                             IF ScoreBelow(scores[i], 5) THEN "high"
                             ELSE IF ScoreBelow(scores[i], 3) THEN "medium"
                             ELSE "low"

\* the estimator was fitted and flagged points of the highest and of the
\* lowest severity in one series, leaving other points unflagged
C26_OutliersGraded ==
    /\ Detected("ml")
    /\ \E j, k \in 1..Len(Findings("ml")) :
           /\ Findings("ml")[j].severity = "high"
           /\ Findings("ml")[k].severity = "low"
    /\ Len(Findings("ml")) < Len(DetectedCosts)

\* the sum, and the sum of the squares, of the w costs before the i-th
TrailingSum(costs, i, w) ==
    SumOver([j \in 1..Len(costs) |-> costs[j]], (i - w)..(i - 1))

TrailingSquares(costs, i, w) ==
    SumOver([j \in 1..Len(costs) |-> costs[j] * costs[j]], (i - w)..(i - 1))

\* the vector of the i-th day (index i - 1 of the source) over windows of
\* 7 and 30 days that end the day before: the cost, 7 times the mean and 49
\* times the squared deviation of the 7 costs before it, 30 times the mean
\* and 900 times the squared deviation of the 30 costs before it, the cost
\* of a week before; the cost itself and 0 stand in for a window that is
\* not full
FeatureVector(costs, i) ==
    LET week  == i - 1 >= ShortWindow
        month == i - 1 >= LongWindow
        S7    == TrailingSum(costs, i, ShortWindow)
        S30   == TrailingSum(costs, i, LongWindow)
    IN  << costs[i],
           IF week THEN S7 ELSE ShortWindow * costs[i],
           IF week
           THEN ShortWindow * TrailingSquares(costs, i, ShortWindow) - S7 * S7
           ELSE 0,
           IF month THEN S30 ELSE LongWindow * costs[i],
           IF month
           THEN LongWindow * TrailingSquares(costs, i, LongWindow) - S30 * S30
           ELSE 0,
           IF week THEN costs[i - ShortWindow] ELSE costs[i] >>

\* the calls that hold the features of their series
WithFeatures == {t \in Threads : calls[t].pc \in {"ml_predict", "ml_score"}}

\* C27: _extract_features returns one 6-component vector per index i, in
\* series order: the cost, the mean and the standard deviation of the costs
\* i-7..i-1 (the cost and 0 if i < 7), the mean and the standard deviation of
\* the costs i-30..i-1 (the cost and 0 if i < 30), and the cost at i-7 (the
\* cost if i < 7); the trailing windows never include the current day.
C27_FeatureVectors ==
    \A t \in WithFeatures :
        LET costs == historical_data[calls[t].provider]
            X     == calls[t].features
        IN  /\ Len(X) = Len(costs)
            /\ \A i \in 1..Len(costs) :
                   Len(X[i]) = 6 /\ X[i] = FeatureVector(costs, i)

\* features were extracted from a series of more than 30 days in which the
\* week before some day, and the 30 days before some day, hold costs that
\* differ, and whose mean is not that day's cost
C27_BothWindowsFull ==
    /\ Main \in WithFeatures
    /\ LET X == calls[Main].features
       IN  /\ \E i \in 1..Len(X) :
                  /\ i > ShortWindow
                  /\ X[i][3] > 0
                  /\ X[i][2] # ShortWindow * X[i][1]
                  /\ X[i][6] # X[i][1]
           /\ \E i \in 1..Len(X) :
                  /\ i > LongWindow
                  /\ X[i][5] > 0
                  /\ X[i][4] # LongWindow * X[i][1]

\* C28: deduplication loses no date and alters no record: every calendar
\* day for which a detector emitted a candidate appears exactly once in
\* all_anomalies, and each record of all_anomalies is field for field one of
\* the candidates emitted for that day.
C28_NoDateLostNoRecordAltered ==
    \A t \in ReturnedCalls :
        LET kept == calls[t].results.all_anomalies
            cand == Candidates(t)
        IN  /\ \A k \in 1..Len(cand) :
                   Cardinality({i \in 1..Len(kept) :
                       to_datetime(kept[i].date) = to_datetime(cand[k].date)}) = 1
            /\ \A i \in 1..Len(kept) :
                   \E k \in 1..Len(cand) : cand[k] = kept[i]

\* C29: no detection operation modifies the stored series: historical_data
\* is the same after every step of comprehensive_anomaly_detection, of the
\* detectors it runs and of generate_anomaly_report, whether the call
\* returns or raises.
C29_StoreUnchanged == [][historical_data' = historical_data]_vars

\* a call has raised after an earlier call had fitted the estimator and
\* returned, on a store whose dates the detectors have to convert
C29_RaisedAfterReturned ==
    /\ calls[Main].pc = "raised"
    /\ isolation_forest.fitted
    /\ Len(historical_data.dates) > 0
    /\ historical_data.dates[1].fmt = "alt"

\* C30: only provider cost series are analysed: generate_anomaly_report
\* called without a provider list, and the membership test of the
\* detectors, do not take the store's 'dates' entry for a provider, so that
\* no detection runs with the date list as the cost series.
C30_DatesNeverAnalysed ==
    \A t \in Threads : calls[t].pc # "idle" => calls[t].provider # "dates"

====
